---------------------------- MODULE Spec2Model ----------------------------
(***************************************************************************)
(* Model of backend/server.py of the Live Trash Finder API: the model      *)
(* singleton and its startup loader, the ConnectionManager, the frame      *)
(* decoder preprocess_frame, the detector adapter detect_trash, the        *)
(* websocket session loop websocket_detect and the two HTTP queries.       *)
(*                                                                         *)
(* Class names and display labels are TLA+ strings, handled character by   *)
(* character (Len, SubSeq, \o), so that lower(), title() and the           *)
(* substring tests of the code are computed, not assumed.  Confidences are *)
(* hundredths (0.25 is 25).                                                *)
(***************************************************************************)
EXTENDS Integers, Sequences, FiniteSets, TLC

VARIABLES
    model,               \* global model (server.py:41): "None" or the loaded weights
    device,              \* global device (server.py:42): "None", "cpu" or "cuda"
    app,                 \* startup hook: "init" (not run), "up" (returned), "failed" (raised)
    active_connections,  \* manager.active_connections, a list of websockets
    pc,                  \* per websocket: where its websocket_detect coroutine is
    clientOpen,          \* per websocket: the client has not closed its end
    frame_info,          \* per websocket: the message being processed
    response,            \* per websocket: the response about to be sent
    inbox,               \* per websocket: the messages receive_text returned, in order
    outbox,              \* per websocket: the texts send_text was given, in order
    detectLog,           \* per websocket: the calls of detect_trash: for which message, with which model and inference
    disconnectLog,       \* per websocket: the calls of manager.disconnect: whether the websocket was in the list
    http,                \* the last HTTP query and its answer
    results,             \* detector specification: what the call model(frame) produced
    detections           \* detector specification: what detect_trash(frame) returned

vars == <<model, device, app, active_connections, pc, clientOpen, frame_info,
          response, inbox, outbox, detectLog, disconnectLog, http, results,
          detections>>

sessionVars == <<active_connections, pc, clientOpen, frame_info, response,
                 inbox, outbox, detectLog, disconnectLog>>

-----------------------------------------------------------------------------
(* Bounds *)

\* websockets that may connect
NumConns == 2
\* messages the websockets may receive, all together
MaxMsgs == 2
\* boxes one inference may emit (detector specification)
MaxBoxes == 2

-----------------------------------------------------------------------------
(* Python str operations, on ASCII *)

LowerAlpha == "abcdefghijklmnopqrstuvwxyz"
UpperAlpha == "ABCDEFGHIJKLMNOPQRSTUVWXYZ"

CharAt(s, i) == SubSeq(s, i, i)

\* the upper-case letter of each lower-case letter, and the reverse
ToUpper == [ch \in {CharAt(LowerAlpha, i) : i \in 1..26} |->
               CharAt(UpperAlpha, CHOOSE i \in 1..26 : CharAt(LowerAlpha, i) = ch)]
ToLower == [ch \in {CharAt(UpperAlpha, i) : i \in 1..26} |->
               CharAt(LowerAlpha, CHOOSE i \in 1..26 : CharAt(UpperAlpha, i) = ch)]

IsLowerChar(ch) == ch \in DOMAIN ToUpper
IsUpperChar(ch) == ch \in DOMAIN ToLower
LowerChar(ch) == IF IsUpperChar(ch) THEN ToLower[ch] ELSE ch
UpperChar(ch) == IF IsLowerChar(ch) THEN ToUpper[ch] ELSE ch

\* str.lower()
RECURSIVE Lower(_)
Lower(s) ==
    IF Len(s) = 0 THEN ""
    ELSE LowerChar(CharAt(s, 1)) \o Lower(SubSeq(s, 2, Len(s)))

\* str.title(): a cased character is upper-cased when the character before it
\* is not cased, lower-cased otherwise
RECURSIVE TitleFrom(_, _)
TitleFrom(s, prevCased) ==
    IF Len(s) = 0 THEN ""
    ELSE LET ch == CharAt(s, 1)
             cased == IsLowerChar(ch) \/ IsUpperChar(ch)
             out == IF ~cased THEN ch
                    ELSE IF prevCased THEN LowerChar(ch) ELSE UpperChar(ch)
         IN  out \o TitleFrom(SubSeq(s, 2, Len(s)), cased)

Title(s) == TitleFrom(s, FALSE)

\* sub in s
Contains(sub, s) ==
    \E i \in 1..(Len(s) - Len(sub) + 1) : SubSeq(s, i, i + Len(sub) - 1) = sub

\* the elements of a sequence
Range(q) == {q[i] : i \in 1..Len(q)}

-----------------------------------------------------------------------------
(* The detector adapter: detect_trash *)

\* Class-name tables of the two models load_trash_model can install, as
\* model.names: class_id -> name, ids counted from 1 here.  "base" is
\* yolov8n.pt (COCO names); "hf" is the trash-specific model, whose names are
\* its own.
ModelNames(m) ==
    IF m = "base"
    THEN <<"person", "bottle", "cup", "banana", "chair", "handbag",
           "cell phone", "hot dog", "wine glass">>
    ELSE <<"plastic bottle", "Plastic Bottle", "PLASTIC BOTTLE", "Trash Can",
           "Cigarette", "garbage", "litter", "Food Waste", "Can", "trash pile">>

\* confidences a box may carry, in hundredths
Confidences == {25, 26, 50, 90}

\* the raw boxes a model can emit: class id, confidence, corner coordinates
Boxes(m) ==
    [cls : 1..Len(ModelNames(m)), conf : Confidences, xyxy : {<<1, 2, 30, 40>>}]

trash_classes ==
    <<"bottle", "cup", "fork", "knife", "spoon", "bowl",
      "banana", "apple", "sandwich", "orange", "broccoli",
      "carrot", "hot dog", "pizza", "donut", "cake",
      "cell phone", "book", "scissors", "teddy bear",
      "toothbrush", "hair drier", "backpack", "handbag",
      "suitcase", "frisbee", "skis", "snowboard", "sports ball",
      "kite", "baseball bat", "baseball glove", "skateboard",
      "surfboard", "tennis racket", "wine glass">>

\* [tc.lower() for tc in trash_classes]
trash_classes_lower == {Lower(tc) : tc \in Range(trash_classes)}

\* a mutation of is_potential_trash: the threshold test is >= instead of >
is_potential_trash_ge(class_name, confidence) ==
    /\ confidence >= 25
    /\ LET lower == Lower(class_name)
       IN  \/ lower \in trash_classes_lower
           \/ Contains("trash", lower)
           \/ Contains("litter", lower)
           \/ Contains("waste", lower)
           \/ Contains("garbage", lower)
           \/ Contains("cigarette", lower)
           \/ Contains("can", lower)
           \/ Contains("bag", lower)

is_potential_trash(class_name, confidence) ==
    /\ confidence > 25
    /\ LET lower == Lower(class_name)
       IN  \/ lower \in trash_classes_lower
           \/ Contains("trash", lower)
           \/ Contains("litter", lower)
           \/ Contains("waste", lower)
           \/ Contains("garbage", lower)
           \/ Contains("cigarette", lower)
           \/ Contains("can", lower)
           \/ Contains("bag", lower)

\* a mutation of trash_type: the "trash"/"garbage" rule is tried before "can"
trash_type_reordered(class_name) ==
    LET lower == Lower(class_name)
    IN
    IF Contains("bottle", lower) THEN "Plastic Bottle"
    ELSE IF Contains("cup", lower) THEN "Disposable Cup"
    ELSE IF Contains("trash", lower) \/ Contains("garbage", lower)
         THEN Title(class_name)
    ELSE IF Contains("can", lower) THEN "Aluminum Can"
    ELSE IF Contains("bag", lower) THEN "Plastic Bag"
    ELSE IF Contains("cigarette", lower) THEN "Cigarette Butt"
    ELSE IF \E food \in {"banana", "apple", "orange", "sandwich", "pizza"} :
                Contains(food, lower)
         THEN "Food Waste: " \o Title(class_name)
    ELSE "Potential Litter: " \o Title(class_name)

trash_type(class_name) ==
    LET lower == Lower(class_name)
    IN
    IF Contains("bottle", lower) THEN "Plastic Bottle"
    ELSE IF Contains("cup", lower) THEN "Disposable Cup"
    ELSE IF Contains("can", lower) THEN "Aluminum Can"
    ELSE IF Contains("bag", lower) THEN "Plastic Bag"
    ELSE IF Contains("cigarette", lower) THEN "Cigarette Butt"
    ELSE IF Contains("trash", lower) \/ Contains("garbage", lower)
         THEN Title(class_name)
    ELSE IF \E food \in {"banana", "apple", "orange", "sandwich", "pizza"} :
                Contains(food, lower)
         THEN "Food Waste: " \o Title(class_name)
    ELSE "Potential Litter: " \o Title(class_name)

\* the loop over the boxes of one result: append a detection for each admitted box
RECURSIVE box_loop(_, _, _)
box_loop(m, boxes, acc) ==
    IF boxes = <<>> THEN acc
    ELSE LET box == Head(boxes)
             class_name == ModelNames(m)[box.cls]
             det == [bbox |-> box.xyxy,
                     confidence |-> box.conf,
                     class_name |-> trash_type(class_name),
                     class_id |-> box.cls,
                     original_class |-> class_name]
         IN  box_loop(m, Tail(boxes),
                      IF is_potential_trash(class_name, box.conf)
                      THEN Append(acc, det) ELSE acc)

\* What model(frame) can do: raise, or return one result whose boxes are None
\* or a list of raw boxes.
NoBoxes == [raises |-> FALSE, has_boxes |-> FALSE, boxes |-> <<>>]
Raises == [raises |-> TRUE, has_boxes |-> FALSE, boxes |-> <<>>]
WithBoxes(bs) == [raises |-> FALSE, has_boxes |-> TRUE, boxes |-> bs]

\* detect_trash(frame), given what the call model(frame) does
detect_trash(m, inference) ==
    IF m = "None" THEN <<>>
    ELSE IF inference.raises THEN <<>>
    ELSE IF ~inference.has_boxes THEN <<>>
    ELSE box_loop(m, inference.boxes, <<>>)

-----------------------------------------------------------------------------
(* Messages and the frame decoder: preprocess_frame *)

Conns == 1..NumConns

\* The 'frame' value of a message, by what each step of preprocess_frame
\* finds: a "," to split at, valid base64 after it, bytes PIL can open, and
\* three or four channels for cv2.cvtColor.
GoodFrame == [has_comma |-> TRUE, b64_ok |-> TRUE, is_image |-> TRUE, rgb |-> TRUE]
NoCommaFrame == [GoodFrame EXCEPT !.has_comma = FALSE]
BadBase64Frame == [GoodFrame EXCEPT !.b64_ok = FALSE]
NotImageFrame == [GoodFrame EXCEPT !.is_image = FALSE]
GrayImageFrame == [GoodFrame EXCEPT !.rgb = FALSE]

\* the frame decodes
Decodable(fd) == fd.has_comma /\ fd.b64_ok /\ fd.is_image /\ fd.rgb

\* a mutation of preprocess_frame: bytes that are no image are not rejected
preprocess_frame_any_bytes(frame_data) ==
    IF ~frame_data.has_comma THEN "None"
    ELSE IF ~frame_data.b64_ok THEN "None"
    ELSE "frame"

\* preprocess_frame(frame_data): "frame" for the pixel buffer, "None" for the
\* sentinel; every exception of the body is caught and becomes "None"
preprocess_frame(frame_data) ==
    IF ~frame_data.has_comma THEN "None"        \* split(',')[1]: IndexError
    ELSE IF ~frame_data.b64_ok THEN "None"      \* b64decode: binascii.Error
    ELSE IF ~frame_data.is_image THEN "None"    \* Image.open: UnidentifiedImageError
    ELSE IF ~frame_data.rgb THEN "None"         \* cvtColor: cv2.error
    ELSE "frame"

\* A text message: whether json.loads accepts it, whether the object has a
\* 'frame' key, and its 'frame', 'timestamp' and 'frame_count' values (JSON
\* literals; "absent" when the key is missing).
Msg(js, hf, fd, ts, fc) ==
    [json |-> js, has_frame |-> hf, frame |-> fd, timestamp |-> ts, frame_count |-> fc]

NotJson == Msg(FALSE, FALSE, GoodFrame, "absent", "absent")
NoFrameField == Msg(TRUE, FALSE, GoodFrame, "7", "1")

\* well-formed frame messages: valid JSON with a 'frame' field
FrameMessages ==
    {Msg(TRUE, TRUE, GoodFrame, "absent", "absent"),
     Msg(TRUE, TRUE, GoodFrame, "7", "1"),
     Msg(TRUE, TRUE, NoCommaFrame, "7", "1"),
     Msg(TRUE, TRUE, BadBase64Frame, "7", "1"),
     Msg(TRUE, TRUE, NotImageFrame, "7", "1"),
     Msg(TRUE, TRUE, GrayImageFrame, "7", "1")}

Messages == {NotJson, NoFrameField} \cup FrameMessages

IsFrameMessage(m) == m.json /\ m.has_frame

\* dict.get(key, default)
Get(value, default) == IF value = "absent" THEN default ELSE value

\* The two response objects of websocket_detect, as the JSON text's content.
\* has_echo: the keys 'timestamp' and 'frame_count' are present.
\* a mutation of success_response: frame_count is read without its default
success_response_no_default(dets, msg) ==
    [error |-> "absent", detections |-> dets, has_echo |-> TRUE,
     timestamp |-> Get(msg.timestamp, "null"),
     frame_count |-> Get(msg.frame_count, "null")]

\* a mutation of success_response: the timestamp is not echoed
success_response_no_timestamp(dets, msg) ==
    [error |-> "absent", detections |-> dets, has_echo |-> TRUE,
     timestamp |-> "null",
     frame_count |-> Get(msg.frame_count, "0")]

success_response(dets, msg) ==
    [error |-> "absent", detections |-> dets, has_echo |-> TRUE,
     timestamp |-> Get(msg.timestamp, "null"),
     frame_count |-> Get(msg.frame_count, "0")]

error_response ==
    [error |-> "Failed to process frame", detections |-> <<>>, has_echo |-> FALSE,
     timestamp |-> "absent", frame_count |-> "absent"]

NoResponse ==
    [error |-> "absent", detections |-> <<>>, has_echo |-> FALSE,
     timestamp |-> "absent", frame_count |-> "absent"]

\* what model(frame) does in the session specification; with model None
\* detect_trash returns before the call
SessionInferences(m) ==
    IF m = "None" THEN {NoBoxes}
    ELSE {Raises,
          WithBoxes(<<[cls |-> 2, conf |-> 90, xyxy |-> <<1, 2, 30, 40>>],
                      [cls |-> 5, conf |-> 90, xyxy |-> <<1, 2, 30, 40>>]>>)}

-----------------------------------------------------------------------------
(* Startup: load_trash_model and startup_event *)

\* no HTTP query has been answered
NoHttp ==
    [query |-> "none", status_code |-> "none", model_loaded |-> FALSE,
     device |-> "None", classes |-> <<>>]

\* load_trash_model, given what its calls do: dev is what
\* torch.cuda.is_available() selects, hf_ok whether the HuggingFace download
\* and YOLO(model_path) succeed, base1_ok and base2_ok whether the first and
\* the second YOLO('yolov8n.pt') succeed, to_ok whether model.to(device)
\* succeeds.  Returns the globals and whether HTTPException(500) is raised.
load_trash_model(dev, hf_ok, base1_ok, base2_ok, to_ok) ==
    LET loaded == IF hf_ok THEN "hf"
                  ELSE IF base1_ok THEN "base"
                  ELSE IF base2_ok THEN "base"
                  ELSE "None"
    IN  [model |-> loaded, device |-> dev,
         raised |-> (loaded = "None") \/ ~to_ok]

\* startup_event: the exception of load_trash_model is not caught, so the
\* startup hook raises and the application does not come up ("failed": no
\* handler runs any more).  The host runs the hook before it serves the first
\* request, or not at all (app stays "init" and model stays None).
startup_event ==
    /\ app = "init"
    /\ \A c \in Conns : pc[c] = "new"
    /\ http = NoHttp
    /\ \E dev \in {"cpu", "cuda"}, hf_ok, base1_ok, base2_ok, to_ok \in BOOLEAN :
         LET r == load_trash_model(dev, hf_ok, base1_ok, base2_ok, to_ok)
         IN  /\ model' = r.model
             /\ device' = r.device
             /\ app' = IF r.raised THEN "failed" ELSE "up"
    /\ UNCHANGED <<sessionVars, http, results, detections>>

-----------------------------------------------------------------------------
(* HTTP queries *)

\* GET /api/health
health_check ==
    /\ app # "failed"
    /\ http' = [query |-> "health", status_code |-> "200",
                model_loaded |-> (model # "None"), device |-> device,
                classes |-> <<>>]
    /\ UNCHANGED <<model, device, app, sessionVars, results, detections>>

\* GET /api/model-info
model_info ==
    /\ app # "failed"
    /\ http' = IF model = "None"
               THEN [query |-> "model-info", status_code |-> "503",
                     model_loaded |-> FALSE, device |-> "None", classes |-> <<>>]
               ELSE [query |-> "model-info", status_code |-> "200",
                     model_loaded |-> TRUE, device |-> device,
                     classes |-> ModelNames(model)]
    /\ UNCHANGED <<model, device, app, sessionVars, results, detections>>

-----------------------------------------------------------------------------
(* ConnectionManager and the session loop websocket_detect *)

\* list.remove(x): the list without its first x (the list itself when x is
\* not in it, where Python raises ValueError)
list_remove(q, x) ==
    IF \E i \in 1..Len(q) : q[i] = x
    THEN LET i == CHOOSE j \in 1..Len(q) : q[j] = x /\ \A k \in 1..(j - 1) : q[k] # x
         IN  SubSeq(q, 1, i - 1) \o SubSeq(q, i + 1, Len(q))
    ELSE q

\* a mutation of manager_disconnect: the whole list is cleared
manager_disconnect_all(c) ==
    /\ active_connections' = <<>>
    /\ disconnectLog' = [disconnectLog EXCEPT ![c] =
                            Append(@, c \in Range(active_connections))]

\* ConnectionManager.disconnect(websocket)
manager_disconnect(c) ==
    /\ active_connections' = list_remove(active_connections, c)
    /\ disconnectLog' = [disconnectLog EXCEPT ![c] =
                            Append(@, c \in Range(active_connections))]

\* a mutation of manager_connect: the websocket is registered twice
manager_connect_twice(c) ==
    /\ app # "failed"
    /\ pc[c] = "new"
    /\ \A d \in Conns : d < c => pc[d] # "new"
    /\ clientOpen[c]
    /\ active_connections' = Append(Append(active_connections, c), c)
    /\ pc' = [pc EXCEPT ![c] = "recv"]
    /\ UNCHANGED <<model, device, app, clientOpen, frame_info, response, inbox,
                   outbox, detectLog, disconnectLog, http, results, detections>>

\* ConnectionManager.connect(websocket), the first statement of
\* websocket_detect: accept, then register.  Websockets are numbered in the
\* order they connect.
manager_connect(c) ==
    /\ app # "failed"
    /\ pc[c] = "new"
    /\ \A d \in Conns : d < c => pc[d] # "new"
    /\ clientOpen[c]
    /\ active_connections' = Append(active_connections, c)
    /\ pc' = [pc EXCEPT ![c] = "recv"]
    /\ UNCHANGED <<model, device, app, clientOpen, frame_info, response, inbox,
                   outbox, detectLog, disconnectLog, http, results, detections>>

\* the client closes its end of websocket c
client_close(c) ==
    /\ app # "failed"
    /\ pc[c] \in {"recv", "send"}
    /\ clientOpen[c]
    /\ clientOpen' = [clientOpen EXCEPT ![c] = FALSE]
    /\ UNCHANGED <<model, device, app, active_connections, pc, frame_info,
                   response, inbox, outbox, detectLog, disconnectLog, http,
                   results, detections>>

\* receive_text() on a closed websocket raises WebSocketDisconnect: the
\* handler deregisters the websocket and the coroutine ends
receive_disconnect(c) ==
    /\ app # "failed"
    /\ pc[c] = "recv"
    /\ ~clientOpen[c]
    /\ manager_disconnect(c)
    /\ pc' = [pc EXCEPT ![c] = "done"]
    /\ UNCHANGED <<model, device, app, clientOpen, frame_info, response, inbox,
                   outbox, detectLog, http, results, detections>>

\* the number of messages received so far, over the websockets 1..n
RECURSIVE Received(_)
Received(n) == IF n = 0 THEN 0 ELSE Len(inbox[n]) + Received(n - 1)

\* a mutation of receive_frame: the next message is read while a response is
\* still waiting to be sent
receive_frame_pipelined(c) ==
    /\ app # "failed"
    /\ pc[c] \in {"recv", "send"}
    /\ clientOpen[c]
    /\ Received(NumConns) < MaxMsgs
    /\ \E msg \in FrameMessages :
         /\ inbox' = [inbox EXCEPT ![c] = Append(@, msg)]
         /\ frame_info' = [frame_info EXCEPT ![c] = msg]
         /\ response' = [response EXCEPT ![c] = error_response]
         /\ pc' = [pc EXCEPT ![c] = "send"]
    /\ UNCHANGED <<model, device, app, active_connections, clientOpen, outbox,
                   detectLog, disconnectLog, http, results, detections>>

\* One pass of the loop body up to its send: receive_text() returns a
\* message, json.loads, preprocess_frame, detect_trash and the response are
\* computed without suspension.  json.loads on text that is not JSON
\* (JSONDecodeError) and frame_info['frame'] on an object without the key
\* (KeyError) raise inside the try: "except Exception" deregisters the
\* websocket and the coroutine ends, nothing is sent.
receive_frame(c) ==
    /\ app # "failed"
    /\ pc[c] = "recv"
    /\ clientOpen[c]
    /\ Received(NumConns) < MaxMsgs
    /\ \E msg \in Messages :
         /\ inbox' = [inbox EXCEPT ![c] = Append(@, msg)]
         /\ frame_info' = [frame_info EXCEPT ![c] = msg]
         /\ IF ~msg.json \/ ~msg.has_frame
            THEN /\ manager_disconnect(c)
                 /\ pc' = [pc EXCEPT ![c] = "done"]
                 /\ UNCHANGED <<response, detectLog>>
            ELSE /\ pc' = [pc EXCEPT ![c] = "send"]
                 /\ UNCHANGED <<active_connections, disconnectLog>>
                 /\ IF preprocess_frame(msg.frame) # "None"
                    THEN \E inference \in SessionInferences(model) :
                           LET dets == detect_trash(model, inference)
                           IN  /\ detectLog' = [detectLog EXCEPT ![c] =
                                                 Append(@, [msg |-> Len(inbox[c]) + 1,
                                                            model |-> model,
                                                            inference |-> inference])]
                               /\ response' = [response EXCEPT ![c] = success_response(dets, msg)]
                    ELSE /\ response' = [response EXCEPT ![c] = error_response]
                         /\ UNCHANGED detectLog
    /\ UNCHANGED <<model, device, app, clientOpen, outbox, http, results, detections>>

\* manager.send_personal_message(json.dumps(response), websocket), then back
\* to the head of the loop.  On a websocket the client has closed, send_text
\* either raises (the handlers deregister the websocket and the coroutine
\* ends) or returns with the text dropped by the transport.
send_response(c) ==
    /\ app # "failed"
    /\ pc[c] = "send"
    /\ \/ /\ outbox' = [outbox EXCEPT ![c] = Append(@, response[c])]
          /\ pc' = [pc EXCEPT ![c] = "recv"]
          /\ UNCHANGED <<active_connections, disconnectLog>>
       \/ /\ ~clientOpen[c]
          /\ manager_disconnect(c)
          /\ pc' = [pc EXCEPT ![c] = "done"]
          /\ UNCHANGED outbox
    /\ UNCHANGED <<model, device, app, clientOpen, frame_info, response, inbox,
                   detectLog, http, results, detections>>

-----------------------------------------------------------------------------
(* The service *)

NoInference == NoBoxes
NotCalled == [called |-> FALSE, ret |-> <<>>]

Init ==
    /\ model = "None"
    /\ device = "None"
    /\ app = "init"
    /\ active_connections = <<>>
    /\ pc = [c \in Conns |-> "new"]
    /\ clientOpen = [c \in Conns |-> TRUE]
    /\ frame_info = [c \in Conns |-> NotJson]
    /\ response = [c \in Conns |-> NoResponse]
    /\ inbox = [c \in Conns |-> <<>>]
    /\ outbox = [c \in Conns |-> <<>>]
    /\ detectLog = [c \in Conns |-> <<>>]
    /\ disconnectLog = [c \in Conns |-> <<>>]
    /\ http = NoHttp
    /\ results = NoInference
    /\ detections = NotCalled

\* the session loops and the startup hook
SessionNext ==
    \/ startup_event
    \/ \E c \in Conns : manager_connect(c)
    \/ \E c \in Conns : client_close(c)
    \/ \E c \in Conns : receive_disconnect(c)
    \/ \E c \in Conns : receive_frame(c)
    \/ \E c \in Conns : send_response(c)

SessionSpec == Init /\ [][SessionNext]_vars

\* the whole service: the sessions, the startup hook and the HTTP queries
Next ==
    \/ startup_event
    \/ health_check
    \/ model_info
    \/ \E c \in Conns : manager_connect(c)
    \/ \E c \in Conns : client_close(c)
    \/ \E c \in Conns : receive_disconnect(c)
    \/ \E c \in Conns : receive_frame(c)
    \/ \E c \in Conns : send_response(c)

Spec == Init /\ [][Next]_vars

-----------------------------------------------------------------------------
(* The detector on its own: one call of detect_trash per behaviour, on any *)
(* inference outcome of up to MaxBoxes boxes                               *)

\* sequences over S of length at most n
RECURSIVE SeqsUpTo(_, _)
SeqsUpTo(S, n) ==
    IF n = 0 THEN {<<>>}
    ELSE LET shorter == SeqsUpTo(S, n - 1)
         IN  shorter \cup {Append(q, x) : q \in shorter, x \in S}

\* what model(frame) can do
Inferences(m) ==
    {Raises, NoBoxes} \cup {WithBoxes(bs) : bs \in SeqsUpTo(Boxes(m), MaxBoxes)}

DetectInit ==
    /\ model \in {"None", "hf", "base"}
    /\ device = IF model = "None" THEN "None" ELSE "cpu"
    /\ app = IF model = "None" THEN "init" ELSE "up"
    /\ active_connections = <<>>
    /\ pc = [c \in Conns |-> "new"]
    /\ clientOpen = [c \in Conns |-> TRUE]
    /\ frame_info = [c \in Conns |-> NotJson]
    /\ response = [c \in Conns |-> NoResponse]
    /\ inbox = [c \in Conns |-> <<>>]
    /\ outbox = [c \in Conns |-> <<>>]
    /\ detectLog = [c \in Conns |-> <<>>]
    /\ disconnectLog = [c \in Conns |-> <<>>]
    /\ http = NoHttp
    /\ results = NoInference
    /\ detections = NotCalled

\* detections = detect_trash(frame)
call_detect_trash ==
    /\ ~detections.called
    /\ \E inference \in (IF model = "None" THEN {NoInference} ELSE Inferences(model)) :
         /\ results' = inference
         /\ detections' = [called |-> TRUE, ret |-> detect_trash(model, inference)]
    /\ UNCHANGED <<model, device, app, sessionVars, http>>

DetectNext == call_detect_trash

DetectSpec == DetectInit /\ [][DetectNext]_vars

-----------------------------------------------------------------------------
(* Properties of the session loop *)

Registered(c) == c \in Range(active_connections)

\* the messages websocket c has received are all well-formed frame messages
OnlyFrames(c) == \A i \in 1..Len(inbox[c]) : IsFrameMessage(inbox[c][i])

\* C1 as stated: the i-th text sent on a websocket answers the i-th message
\* received on it, which is a frame message; every frame read has its result
\* when the loop is back at its receive; and every result carries the
\* frame_count of the frame it answers, 0 when the frame gave none.
C1_EveryResultEchoes ==
    \A c \in Conns :
        /\ Len(outbox[c]) <= Len(inbox[c])
        /\ pc[c] = "recv" => Len(outbox[c]) = Len(inbox[c])
        /\ \A i \in 1..Len(outbox[c]) :
               /\ IsFrameMessage(inbox[c][i])
               /\ outbox[c][i].has_echo
               /\ outbox[c][i].frame_count = Get(inbox[c][i].frame_count, "0")

\* C1, amended: N frames received on a websocket whose client stays
\* connected get exactly N results, the
\* i-th answering the i-th frame; the result of a frame whose payload decodes
\* carries that frame's frame_count (0 when it gave none), and a frame whose
\* payload does not decode is answered in its place by the error message,
\* which carries neither frame_count nor timestamp.
C1_ResultsInOrder ==
    \A c \in Conns :
        /\ Len(outbox[c]) <= Len(inbox[c])
        /\ pc[c] = "recv" => Len(outbox[c]) = Len(inbox[c])
        /\ (OnlyFrames(c) /\ clientOpen[c]) =>
               /\ pc[c] # "done"
               /\ Len(outbox[c]) >= Len(inbox[c]) - 1
        /\ \A i \in 1..Len(outbox[c]) :
               /\ IsFrameMessage(inbox[c][i])
               /\ IF Decodable(inbox[c][i].frame)
                  THEN /\ outbox[c][i].error = "absent"
                       /\ outbox[c][i].has_echo
                       /\ outbox[c][i].frame_count = Get(inbox[c][i].frame_count, "0")
                  ELSE /\ outbox[c][i].error = "Failed to process frame"
                       /\ ~outbox[c][i].has_echo

\* two frames with different frame_count values were answered in order on one
\* websocket, the second without a frame_count of its own
C1_Witness ==
    \E c \in Conns :
        /\ Len(outbox[c]) = 2
        /\ pc[c] = "recv"
        /\ inbox[c][1].frame_count = "1"
        /\ inbox[c][2].frame_count = "absent"
        /\ outbox[c][1].frame_count = "1"
        /\ outbox[c][2].frame_count = "0"

\* C2 as stated: a text message that is not JSON, or is JSON without a
\* 'frame' field, is answered by the error message {"error": "Failed to
\* process frame", "detections": []}; the websocket stays registered and the
\* loop goes on to read the next message.
C2_MalformedIsAnswered ==
    \A c \in Conns : \A i \in 1..Len(inbox[c]) :
        ~IsFrameMessage(inbox[c][i]) =>
            /\ clientOpen[c] => (pc[c] # "done" /\ Registered(c))
            /\ i <= Len(outbox[c]) => outbox[c][i] = error_response
            /\ (i > Len(outbox[c]) /\ clientOpen[c]) =>
                   (pc[c] = "send" /\ response[c] = error_response)

\* C3: a well-formed frame message whose payload does not decode (no comma,
\* malformed base64, bytes that are no image) makes preprocess_frame return
\* the sentinel; detect_trash is not called for it; its one answer is the
\* error message with no detections; and, the client still being connected,
\* the websocket stays registered and the loop is back at its receive once
\* the answer is sent.
C3_DecodeFailureIsReported ==
    \A c \in Conns : \A i \in 1..Len(inbox[c]) :
        (IsFrameMessage(inbox[c][i]) /\ ~Decodable(inbox[c][i].frame)) =>
            /\ preprocess_frame(inbox[c][i].frame) = "None"
            /\ \A k \in 1..Len(detectLog[c]) : detectLog[c][k].msg # i
            /\ i <= Len(outbox[c]) =>
                   /\ outbox[c][i].error = "Failed to process frame"
                   /\ outbox[c][i].detections = <<>>
            /\ (i > Len(outbox[c]) /\ clientOpen[c]) =>
                   /\ pc[c] = "send"
                   /\ response[c].error = "Failed to process frame"
                   /\ response[c].detections = <<>>
                   /\ Registered(c)
            /\ (i = Len(inbox[c]) /\ i <= Len(outbox[c]) /\ clientOpen[c]) =>
                   (pc[c] = "recv" /\ Registered(c))
            /\ Len(outbox[c]) <= Len(inbox[c])

\* a frame whose bytes are no image was answered by the error message and the
\* next message was read on the same websocket
C3_Witness ==
    \E c \in Conns :
        /\ Len(inbox[c]) = 2
        /\ inbox[c][1].frame = NotImageFrame
        /\ IsFrameMessage(inbox[c][1])
        /\ Len(outbox[c]) >= 1
        /\ outbox[c][1] = error_response
        /\ detectLog[c] = <<>>
        /\ Registered(c)

-----------------------------------------------------------------------------
(* Properties of the detector adapter *)

\* the class name the model gives box b
RawName(b) == ModelNames(model)[b.cls]

\* detect_trash has run on boxes the model returned
Detected == detections.called /\ model # "None" /\ results.has_boxes

\* C4 as stated: a box whose class name is "plastic bottle" in any letter
\* case, with confidence 0.9, yields a detection labelled "Plastic Bottle"
\* whose original_class is the raw class name.
C4_PlasticBottleIsLabelled ==
    Detected =>
        \A i \in 1..Len(results.boxes) :
            LET b == results.boxes[i]
            IN  (Lower(RawName(b)) = "plastic bottle" /\ b.conf = 90) =>
                    \E k \in 1..Len(detections.ret) :
                        /\ detections.ret[k].original_class = RawName(b)
                        /\ detections.ret[k].class_name = "Plastic Bottle"

\* the allow-list and the trigger substrings of the admission rule
C5_AllowList == Range(trash_classes)
C5_Triggers == {"trash", "litter", "waste", "garbage", "cigarette", "can", "bag"}

C5_Admitted(b) ==
    /\ b.conf > 25
    /\ \/ Lower(RawName(b)) \in C5_AllowList
       \/ \E t \in C5_Triggers : Contains(t, Lower(RawName(b)))

\* C5: detect_trash keeps exactly the boxes whose confidence is above 0.25
\* and whose lowercased class name is on the allow-list or contains a trigger
\* substring, in the model's order; no box at confidence 0.25 or below is
\* kept, and "chair" is kept at no confidence.
C5_AdmissionRule ==
    Detected =>
        LET kept == SelectSeq(results.boxes, C5_Admitted)
        IN  /\ Len(detections.ret) = Len(kept)
            /\ \A k \in 1..Len(kept) :
                   /\ detections.ret[k].class_id = kept[k].cls
                   /\ detections.ret[k].confidence = kept[k].conf
                   /\ detections.ret[k].bbox = kept[k].xyxy
                   /\ detections.ret[k].original_class = RawName(kept[k])
            /\ \A k \in 1..Len(detections.ret) :
                   /\ detections.ret[k].confidence > 25
                   /\ Lower(detections.ret[k].original_class) # "chair"

\* of a chair at 0.9 and a bottle at 0.26 only the bottle was kept
C5_Witness ==
    /\ Detected
    /\ Len(results.boxes) = 2
    /\ RawName(results.boxes[1]) = "chair"
    /\ results.boxes[1].conf = 90
    /\ RawName(results.boxes[2]) = "bottle"
    /\ results.boxes[2].conf = 26
    /\ Len(detections.ret) = 1
    /\ detections.ret[1].original_class = "bottle"

\* the labelling rules in their order: whether the rule matches the
\* lowercased class name, and the label it gives
C6_Rules(name) ==
    LET low == Lower(name)
    IN  << [matches |-> Contains("bottle", low), label |-> "Plastic Bottle"],
           [matches |-> Contains("cup", low), label |-> "Disposable Cup"],
           [matches |-> Contains("can", low), label |-> "Aluminum Can"],
           [matches |-> Contains("bag", low), label |-> "Plastic Bag"],
           [matches |-> Contains("cigarette", low), label |-> "Cigarette Butt"],
           [matches |-> Contains("trash", low) \/ Contains("garbage", low),
            label |-> Title(name)],
           [matches |-> \E f \in {"banana", "apple", "orange", "sandwich", "pizza"} :
                            Contains(f, low),
            label |-> "Food Waste: " \o Title(name)],
           [matches |-> TRUE, label |-> "Potential Litter: " \o Title(name)] >>

\* the label of the first rule that matches
C6_FirstMatch(name) ==
    LET rules == C6_Rules(name)
        first == CHOOSE i \in 1..Len(rules) :
                     rules[i].matches /\ \A j \in 1..(i - 1) : ~rules[j].matches
    IN  rules[first].label

\* C6: the display label of every detection is the label of the first rule,
\* in the order bottle, cup, can, bag, cigarette, trash/garbage, food,
\* otherwise, that matches its lowercased class name; "banana" at 0.5 is
\* "Food Waste: Banana".
C6_FirstMatchingRule ==
    Detected =>
        \A k \in 1..Len(detections.ret) :
            LET d == detections.ret[k]
            IN  /\ d.class_name = C6_FirstMatch(d.original_class)
                /\ d.original_class = "banana" => d.class_name = "Food Waste: Banana"
                /\ d.original_class = "Trash Can" => d.class_name = "Aluminum Can"
                /\ d.original_class = "garbage" => d.class_name = "Plastic Bag"
                /\ d.original_class = "trash pile" => d.class_name = "Trash Pile"
                /\ d.original_class = "cell phone" =>
                       d.class_name = "Potential Litter: Cell Phone"

\* a banana at 0.5 was kept and labelled "Food Waste: Banana"
C6_Witness ==
    /\ Detected
    /\ \E k \in 1..Len(detections.ret) :
           /\ detections.ret[k].original_class = "banana"
           /\ detections.ret[k].confidence = 50
           /\ detections.ret[k].class_name = "Food Waste: Banana"

-----------------------------------------------------------------------------
(* Properties of concurrent sessions, of startup and of the detector in a session *)

\* the session of websocket c ends in this step
Ends(c) == pc[c] \in {"recv", "send"} /\ pc'[c] = "done"

\* C7: when the session of one websocket ends (its client disconnected, or
\* an exception was raised in its loop), that websocket and no other leaves
\* active_connections and only its loop ends: every other websocket keeps its
\* registration, its place in its loop, the messages it received, the results
\* it was sent and the response it is about to be sent.
C7_OnlyTheEndingSessionLeaves ==
    [][\A c \in Conns :
          Ends(c) =>
              /\ Registered(c)
              /\ c \notin Range(active_connections')
              /\ \A d \in Conns \ {c} :
                     /\ Registered(d) <=> d \in Range(active_connections')
                     /\ pc'[d] = pc[d]
                     /\ app' # "failed"
                     /\ pc[d] \in {"recv", "send"} => Registered(d)
                     /\ inbox'[d] = inbox[d]
                     /\ outbox'[d] = outbox[d]
                     /\ response'[d] = response[d]]_vars

\* one session has ended on a message that is not JSON while the other, still
\* registered, has since been sent the result of its frame
C7_Witness ==
    \E c, d \in Conns :
        /\ c # d
        /\ pc[c] = "done"
        /\ Len(inbox[c]) = 1
        /\ ~inbox[c][1].json
        /\ ~Registered(c)
        /\ Registered(d)
        /\ pc[d] = "recv"
        /\ Len(outbox[d]) = 1
        /\ outbox[d][1].error = "absent"

\* startup_event has run and load_trash_model installed no model
LoadFailed == app # "init" /\ model = "None"

\* C8 as stated: when model loading fails at startup the service still comes
\* up, degraded: the health query answers model_loaded false, the model-info
\* query answers 503, and every frame of a session is answered with no
\* detections while the session stays open.
C8_DegradedServiceComesUp ==
    LoadFailed =>
        /\ app = "up"
        /\ http.query = "health" => ~http.model_loaded
        /\ http.query = "model-info" => http.status_code = "503"
        /\ \A c \in Conns : \A i \in 1..Len(outbox[c]) : outbox[c][i].detections = <<>>

\* C9: every frame that decodes is handed to detect_trash; when the model is
\* None or the inference raises, the answer to that frame is the success
\* message with detections [] and the frame's timestamp (null when it gave
\* none) and frame_count (0 when it gave none); and, the client still being
\* connected, the websocket stays registered and the loop is back at its
\* receive once the answer is sent.
C9_InferenceFailureIsEmptyResult ==
    \A c \in Conns :
        /\ \A i \in 1..Len(inbox[c]) :
               (IsFrameMessage(inbox[c][i]) /\ Decodable(inbox[c][i].frame)) =>
                   \E k \in 1..Len(detectLog[c]) : detectLog[c][k].msg = i
        /\ \A k \in 1..Len(detectLog[c]) :
               LET call == detectLog[c][k]
                   i == call.msg
                   expected == [error |-> "absent", detections |-> <<>>, has_echo |-> TRUE,
                                timestamp |-> IF inbox[c][i].timestamp = "absent"
                                              THEN "null" ELSE inbox[c][i].timestamp,
                                frame_count |-> IF inbox[c][i].frame_count = "absent"
                                                THEN "0" ELSE inbox[c][i].frame_count]
               IN  (call.model = "None" \/ call.inference.raises) =>
                       /\ i <= Len(outbox[c]) => outbox[c][i] = expected
                       /\ (i > Len(outbox[c]) /\ clientOpen[c]) =>
                              (pc[c] = "send" /\ response[c] = expected /\ Registered(c))
                       /\ (i = Len(inbox[c]) /\ i <= Len(outbox[c]) /\ clientOpen[c]) =>
                              (pc[c] = "recv" /\ Registered(c))

\* a frame whose inference raised was answered with no detections and its
\* timestamp and frame_count, and the next message was read on the websocket
C9_Witness ==
    \E c \in Conns :
        /\ Len(inbox[c]) = 2
        /\ Len(detectLog[c]) >= 1
        /\ detectLog[c][1].msg = 1
        /\ detectLog[c][1].inference.raises
        /\ inbox[c][1].timestamp = "7"
        /\ Len(outbox[c]) >= 1
        /\ outbox[c][1].detections = <<>>
        /\ outbox[c][1].timestamp = "7"
        /\ outbox[c][1].frame_count = "1"
        /\ Registered(c)

\* C10: on every websocket a receive and a send alternate: a message is read
\* only when every message read before it has been answered, and a result is
\* sent only for the one message that is waiting for its answer.
C10_ReceiveAndSendAlternate ==
    [][\A c \in Conns :
          /\ Len(inbox'[c]) # Len(inbox[c]) =>
                 /\ Len(inbox'[c]) = Len(inbox[c]) + 1
                 /\ Len(outbox[c]) = Len(inbox[c])
                 /\ outbox'[c] = outbox[c]
          /\ Len(outbox'[c]) # Len(outbox[c]) =>
                 /\ Len(outbox'[c]) = Len(outbox[c]) + 1
                 /\ Len(inbox[c]) = Len(outbox[c]) + 1
                 /\ inbox'[c] = inbox[c]]_vars

\* two messages were read and answered in turn on one websocket
C10_Witness ==
    \E c \in Conns : Len(inbox[c]) = 2 /\ Len(outbox[c]) = 2

-----------------------------------------------------------------------------
(* Properties of the ConnectionManager *)

\* how often websocket c is in active_connections
Occurrences(c) == Cardinality({i \in 1..Len(active_connections) : active_connections[i] = c})

\* the session loop of websocket c is running: accepted and not terminated
LoopRunning(c) == pc[c] \in {"recv", "send"}

\* C11: active_connections holds each websocket at most once and holds
\* exactly the websockets that were accepted and whose session loop has not
\* terminated; manager.disconnect is called at most once per session, exactly
\* when its loop terminates, and only for a websocket that is in the list
\* (list.remove never raises); once every session has ended the list is
\* empty.
C11_ActiveConnectionsAreTheRunningLoops ==
    /\ \A c \in Conns :
           /\ Occurrences(c) <= 1
           /\ (Occurrences(c) = 1) <=> LoopRunning(c)
           /\ Len(disconnectLog[c]) <= 1
           /\ (Len(disconnectLog[c]) = 1) <=> (pc[c] = "done")
           /\ \A k \in 1..Len(disconnectLog[c]) : disconnectLog[c][k]
    /\ Len(active_connections) = Cardinality({c \in Conns : LoopRunning(c)})
    /\ (\A c \in Conns : ~LoopRunning(c)) => active_connections = <<>>

\* both websockets were accepted and both sessions have ended, the first by
\* a client disconnect and the second by an exception: each was deregistered
\* by one call that found it in the list, and the list is empty
C11_Witness ==
    /\ pc[1] = "done"
    /\ pc[2] = "done"
    /\ Len(inbox[1]) = 0
    /\ Len(inbox[2]) = 1
    /\ disconnectLog[1] = <<TRUE>>
    /\ disconnectLog[2] = <<TRUE>>
    /\ active_connections = <<>>

=============================================================================
